---- MODULE Spec2Model ----
(***************************************************************************)
(* Model of the scraping orchestrator of the LinkedIn profile harvester    *)
(* (Linkedin-scrapper/linkedin_scraper_puppeteer.py and config.py).        *)
(*                                                                         *)
(* Python and JSON values are records of one shape,                        *)
(*   [t |-> kind, s |-> text, k |-> keys, l |-> items],                    *)
(* so that any two values can be compared: `t` is the Python type, `s` the *)
(* text of a scalar, `k`/`l` the keys (in insertion order) and the values  *)
(* of a dict, `l` the items of a list.                                     *)
(***************************************************************************)
EXTENDS Integers, Sequences, FiniteSets, TLC

\* ------------------------------------------------------------------------
\* Bounds of the model
\* ------------------------------------------------------------------------
MaxTargets == 4
MaxRuns == 2

\* ------------------------------------------------------------------------
\* Python values
\* ------------------------------------------------------------------------
None == [t |-> "none", s |-> "", k |-> <<>>, l |-> <<>>]
Str(x) == [t |-> "str", s |-> x, k |-> <<>>, l |-> <<>>]
Num(x) == [t |-> "num", s |-> x, k |-> <<>>, l |-> <<>>]
Bool(x) == [t |-> "bool", s |-> x, k |-> <<>>, l |-> <<>>]
List(items) == [t |-> "list", s |-> "", k |-> <<>>, l |-> items]
Dict(keys, vals) == [t |-> "dict", s |-> "", k |-> keys, l |-> vals]

IsDict(v) == v.t = "dict"
IsList(v) == v.t = "list"

\* Python truth value of an object: `if result:`
Truthy(v) ==
    CASE v.t = "none" -> FALSE
      [] v.t = "dict" -> Len(v.k) > 0
      [] v.t = "list" -> Len(v.l) > 0
      [] v.t = "str" -> v.s # ""
      [] v.t = "num" -> v.s # "0"
      [] v.t = "bool" -> v.s = "true"
      [] OTHER -> TRUE

\* `key in d`
DictHas(d, key) == \E i \in 1..Len(d.k) : d.k[i] = key

\* d.get(key, default)
DictGet(d, key, default) ==
    IF DictHas(d, key)
    THEN d.l[CHOOSE i \in 1..Len(d.k) : d.k[i] = key]
    ELSE default

\* d[key] = v : a new key goes to the end, an old key keeps its place
DictSet(d, key, v) ==
    IF DictHas(d, key)
    THEN LET i == CHOOSE j \in 1..Len(d.k) : d.k[j] = key
         IN Dict(d.k, [d.l EXCEPT ![i] = v])
    ELSE Dict(Append(d.k, key), Append(d.l, v))

\* the keys of a dict as a set
Keys(d) == {d.k[i] : i \in 1..Len(d.k)}

\* the elements of a sequence as a set
Range(seq) == {seq[i] : i \in 1..Len(seq)}

\* ------------------------------------------------------------------------
\* json.dumps with the default separators
\* ------------------------------------------------------------------------
RECURSIVE JsonDumps(_)
RECURSIVE JoinItems(_, _)
RECURSIVE JoinMembers(_, _, _)

JoinItems(items, i) ==
    IF i > Len(items) THEN ""
    ELSE (IF i > 1 THEN ", " ELSE "") \o JsonDumps(items[i]) \o JoinItems(items, i + 1)

JoinMembers(keys, vals, i) ==
    IF i > Len(keys) THEN ""
    ELSE (IF i > 1 THEN ", " ELSE "") \o "\"" \o keys[i] \o "\": "
         \o JsonDumps(vals[i]) \o JoinMembers(keys, vals, i + 1)

JsonDumps(v) ==
    CASE v.t = "none" -> "null"
      [] v.t = "str" -> "\"" \o v.s \o "\""
      [] v.t = "num" -> v.s
      [] v.t = "bool" -> v.s
      [] v.t = "list" -> "[" \o JoinItems(v.l, 1) \o "]"
      [] v.t = "dict" -> "{" \o JoinMembers(v.k, v.l, 1) \o "}"

\* ------------------------------------------------------------------------
\* config.py
\* ------------------------------------------------------------------------
DATA_FIELDS ==
    << "name", "headline", "location", "about", "current_company",
       "current_position", "education", "top_skills", "profile_url",
       "connections", "scraped_at" >>

EXTENDED_DATA_FIELDS ==
    << "all_skills", "skills_count", "email", "phone", "website",
       "profile_image_url", "pronouns", "all_experience", "all_education" >>

\* ------------------------------------------------------------------------
\* _normalize_profile_data
\* ------------------------------------------------------------------------
\* a variant of FieldValue: a missing field gets None
FieldValueNone(profile_data, field) == DictGet(profile_data, field, None)

\* the value the loop over all_fields stores for one field
FieldValue(profile_data, field) ==
    IF DictHas(profile_data, field)
    THEN DictGet(profile_data, field, None)
    ELSE IF field \in {"all_experience", "all_education"}
         THEN DictGet(profile_data, field, List(<<>>))
         ELSE IF field = "all_skills"
              THEN DictGet(profile_data, "all_skills", Str("N/A"))
              ELSE Str("N/A")

\* a variant of FillFields: a field the raw record lacks gets no default
RECURSIVE FillFieldsPresentOnly(_, _, _, _)
FillFieldsPresentOnly(normalized, profile_data, fields, i) ==
    IF i > Len(fields) THEN normalized
    ELSE IF DictHas(profile_data, fields[i])
         THEN FillFieldsPresentOnly(DictSet(normalized, fields[i],
                                            FieldValue(profile_data, fields[i])),
                                    profile_data, fields, i + 1)
         ELSE FillFieldsPresentOnly(normalized, profile_data, fields, i + 1)

RECURSIVE FillFields(_, _, _, _)
FillFields(normalized, profile_data, fields, i) ==
    IF i > Len(fields) THEN normalized
    ELSE FillFields(DictSet(normalized, fields[i], FieldValue(profile_data, fields[i])),
                    profile_data, fields, i + 1)

\* a variant of ListToText: json.dumps whatever the field holds
ListToTextAlways(normalized, field) ==
    DictSet(normalized, field, Str(JsonDumps(DictGet(normalized, field, None))))

\* json.dumps of the field when it holds a list
ListToText(normalized, field) ==
    IF IsList(DictGet(normalized, field, None))
    THEN DictSet(normalized, field, Str(JsonDumps(DictGet(normalized, field, None))))
    ELSE normalized

\* a variant of NormalizeProfileData: the fields are filled into the raw
\* record, whose other keys stay
NormalizeProfileDataKeepRaw(profile_data, now) ==
    LET all_fields == DATA_FIELDS \o EXTENDED_DATA_FIELDS
        start == DictSet(DictSet(profile_data, "profile_url",
                                 DictGet(profile_data, "profile_url", Str("N/A"))),
                         "scraped_at", DictGet(profile_data, "scraped_at", Str(now)))
        filled == FillFields(start, profile_data, all_fields, 1)
    IN ListToText(ListToText(filled, "all_experience"), "all_education")

\* now: the text of datetime.now() at the call
NormalizeProfileData(profile_data, now) ==
    LET all_fields == DATA_FIELDS \o EXTENDED_DATA_FIELDS
        start == Dict(<< "profile_url", "scraped_at" >>,
                      << DictGet(profile_data, "profile_url", Str("N/A")),
                         DictGet(profile_data, "scraped_at", Str(now)) >>)
        filled == FillFields(start, profile_data, all_fields, 1)
    IN ListToText(ListToText(filled, "all_experience"), "all_education")

\* ------------------------------------------------------------------------
\* The text a worker process writes.  A text is a sequence of lines and a
\* line a sequence of tokens; the brackets, braces, commas and colons are
\* tokens of their own, a JSON string literal is the token Quoted(x), and
\* every other token is log text.  An empty line is the empty sequence.
\* ------------------------------------------------------------------------
\* the i-th profile URL of a target list
Target(i) == "https://www.linkedin.com/in/p" \o ToString(i)

StringLiterals ==
    { "success", "error", "message", "login failed", "boom", "name", "A", "B",
      "profile_url", "u1", "u2", "headline", "all_experience", "education",
      "title", "Engineer", "extra", Target(1) }
NumLiterals == { "0", "1", "5" }

Quoted(x) == "\"" \o x \o "\""
IsStringToken(tok) == \E x \in StringLiterals : Quoted(x) = tok
StringOf(tok) == CHOOSE x \in StringLiterals : Quoted(x) = tok

\* the result of a parse: ok, the value, and the index after it
ParseFail == [ok |-> FALSE, v |-> None, n |-> 0]
ParseOk(v, n) == [ok |-> TRUE, v |-> v, n |-> n]

RECURSIVE ParseValue(_, _)
RECURSIVE ParseElems(_, _, _)
RECURSIVE ParseMembers(_, _, _)

\* the items of an array after `[` : value ( `,` value )* `]`
ParseElems(ts, i, acc) ==
    LET r == ParseValue(ts, i) IN
    IF ~r.ok \/ r.n > Len(ts) THEN ParseFail
    ELSE IF ts[r.n] = "]" THEN ParseOk(List(Append(acc, r.v)), r.n + 1)
    ELSE IF ts[r.n] = "," THEN ParseElems(ts, r.n + 1, Append(acc, r.v))
    ELSE ParseFail

\* the members of an object after `{` : string `:` value ( `,` ... )* `}`
ParseMembers(ts, i, acc) ==
    IF i + 1 > Len(ts) THEN ParseFail
    ELSE IF ~IsStringToken(ts[i]) \/ ts[i + 1] # ":" THEN ParseFail
    ELSE LET r == ParseValue(ts, i + 2) IN
         IF ~r.ok \/ r.n > Len(ts) THEN ParseFail
         ELSE IF ts[r.n] = "}"
              THEN ParseOk(DictSet(acc, StringOf(ts[i]), r.v), r.n + 1)
         ELSE IF ts[r.n] = ","
              THEN ParseMembers(ts, r.n + 1, DictSet(acc, StringOf(ts[i]), r.v))
         ELSE ParseFail

ParseValue(ts, i) ==
    IF i > Len(ts) THEN ParseFail
    ELSE LET tok == ts[i] IN
         CASE tok = "[" ->
                IF i + 1 <= Len(ts) /\ ts[i + 1] = "]"
                THEN ParseOk(List(<<>>), i + 2)
                ELSE ParseElems(ts, i + 1, <<>>)
           [] tok = "{" ->
                IF i + 1 <= Len(ts) /\ ts[i + 1] = "}"
                THEN ParseOk(Dict(<<>>, <<>>), i + 2)
                ELSE ParseMembers(ts, i + 1, Dict(<<>>, <<>>))
           [] tok \in NumLiterals -> ParseOk(Num(tok), i + 1)
           [] tok \in {"true", "false"} -> ParseOk(Bool(tok), i + 1)
           [] tok = "null" -> ParseOk(None, i + 1)
           [] OTHER ->
                IF IsStringToken(tok) THEN ParseOk(Str(StringOf(tok)), i + 1)
                ELSE ParseFail

\* json.loads: ok is FALSE where Python raises json.JSONDecodeError
JsonLoads(ts) ==
    LET r == ParseValue(ts, 1) IN
    IF r.ok /\ r.n = Len(ts) + 1 THEN [ok |-> TRUE, v |-> r.v]
    ELSE [ok |-> FALSE, v |-> None]

\* all lines of a text joined (a line break is white space to json.loads)
RECURSIVE Flatten(_)
Flatten(lines) ==
    IF lines = <<>> THEN <<>> ELSE Head(lines) \o Flatten(Tail(lines))

\* str.strip() of a text: the empty lines at both ends go
RECURSIVE StripHead(_)
StripHead(lines) ==
    IF lines # <<>> /\ Head(lines) = <<>> THEN StripHead(Tail(lines)) ELSE lines

RECURSIVE StripTail(_)
StripTail(lines) ==
    IF lines # <<>> /\ lines[Len(lines)] = <<>>
    THEN StripTail(SubSeq(lines, 1, Len(lines) - 1))
    ELSE lines

Strip(lines) == StripTail(StripHead(lines))

\* output_lines[-5:]
LastLines(lines) ==
    IF Len(lines) <= 5 THEN lines ELSE SubSeq(lines, Len(lines) - 4, Len(lines))

\* `line and (line.startswith('{') or line.startswith('['))` and json.loads(line) works
LineIsJson(line) ==
    /\ line # <<>>
    /\ line[1] \in {"{", "["}
    /\ JsonLoads(line).ok

\* re.search(r'(\[.*\]|\{.*\})', stdout_text, re.DOTALL): the leftmost opening
\* bracket or brace that has its closing one somewhere after it, up to the
\* last such closing one; <<>> when there is no match
Closer(tok) == IF tok = "[" THEN "]" ELSE "}"
MatchStarts(ts) ==
    { p \in 1..Len(ts) : /\ ts[p] \in {"[", "{"}
                         /\ \E q \in (p + 1)..Len(ts) : ts[q] = Closer(ts[p]) }
JsonMatch(ts) ==
    IF MatchStarts(ts) = {} THEN <<>>
    ELSE LET p == CHOOSE x \in MatchStarts(ts) : \A y \in MatchStarts(ts) : x <= y
             q == CHOOSE x \in (p + 1)..Len(ts) :
                     /\ ts[x] = Closer(ts[p])
                     /\ \A y \in (p + 1)..Len(ts) : ts[y] = Closer(ts[p]) => y <= x
         IN SubSeq(ts, p, q)

\* ------------------------------------------------------------------------
\* _run_node_script: what the call returns for one completion of the child
\* process.  kind is "exit" (the process ended with returncode), "timeout"
\* (subprocess.TimeoutExpired) or "oserror" (subprocess.run raised).
\* ------------------------------------------------------------------------
Completion(kind, returncode, stdout, stderr) ==
    [kind |-> kind, returncode |-> returncode, stdout |-> stdout, stderr |-> stderr]

\* lines 152-182: the JSON value found in the text of a zero exit
ExtractJson(stdout_text) ==
    LET output_lines == LastLines(stdout_text)
        hits == { i \in 1..Len(output_lines) : LineIsJson(output_lines[i]) }
        whole == JsonLoads(Flatten(stdout_text))
        span == JsonMatch(Flatten(stdout_text))
    IN IF hits # {}
       THEN JsonLoads(output_lines[CHOOSE i \in hits : \A j \in hits : j <= i]).v
       ELSE IF whole.ok THEN whole.v
       ELSE IF span # <<>> /\ JsonLoads(span).ok THEN JsonLoads(span).v
       ELSE None

\* a variant of RunNodeScript: the exit code is not looked at
RunNodeScriptAnyExit(completion) ==
    IF completion.kind # "exit" THEN None
    ELSE IF Strip(completion.stdout) = <<>> THEN None
    ELSE ExtractJson(Strip(completion.stdout))

\* a variant of RunNodeScript: the error payload parsed at lines 137-140 is
\* returned
RunNodeScriptErrorPayload(completion) ==
    IF completion.kind # "exit" THEN None
    ELSE IF completion.returncode # 0
         THEN LET text == IF Strip(completion.stderr) # <<>>
                          THEN Strip(completion.stderr)
                          ELSE Strip(completion.stdout)
              IN JsonLoads(Flatten(text)).v
    ELSE IF Strip(completion.stdout) = <<>> THEN None
    ELSE ExtractJson(Strip(completion.stdout))

\* the payload parsed at lines 137-140 is only logged
RunNodeScript(completion) ==
    IF completion.kind # "exit" THEN None
    ELSE IF completion.returncode # 0 THEN None
    ELSE IF Strip(completion.stdout) = <<>> THEN None
    ELSE ExtractJson(Strip(completion.stdout))

\* ------------------------------------------------------------------------
\* The inputs of the model
\* ------------------------------------------------------------------------
TargetLists == { [i \in 1..n |-> Target(i)] : n \in 0..MaxTargets }

\* max_profiles: <<>> is None (not provided), <<n>> the integer n
MaxProfilesArgs == { <<>> } \cup { <<n>> : n \in -1..MaxTargets }

\* config.LINKEDIN_EMAIL / config.LINKEDIN_PASSWORD
Emails == { "", "user@example.com" }
Passwords == { "", "secret" }

\* texts of datetime.now()
Times == { "2025-01-01 10:00:00" }

Q(x) == Quoted(x)
LogLine == << "Launching", "browser" >>
ProfileA ==
    << "{", Q("profile_url"), ":", Q(Target(1)), ",", Q("name"), ":", Q("A"), "}" >>
ProfileB ==
    << "{", Q("name"), ":", Q("B"), ",", Q("all_experience"), ":",
       "[", "{", Q("title"), ":", Q("Engineer"), "}", "]", ",",
       Q("education"), ":", "[", Q("A"), "]", ",", Q("extra"), ":", "5", "}" >>
ErrorRow == << "{", Q("error"), ":", Q("boom"), ",", Q("profile_url"), ":", Q("u2"), "}" >>
ErrorOnly == << "{", Q("error"), ":", Q("boom"), "}" >>
SuccessLine == << "{", Q("success"), ":", "true", "}" >>

\* what a child process can end with
Completions ==
    { Completion("timeout", 0, <<>>, <<>>),
      Completion("oserror", 0, <<>>, <<>>),
      Completion("exit", 1, << ProfileA >>, << ErrorOnly >>),
      Completion("exit", 0, << <<>> >>, <<>>),
      Completion("exit", 0, << LogLine >>, <<>>),
      Completion("exit", 0, << LogLine, SuccessLine >>, <<>>),
      Completion("exit", 0, << << "{", Q("success"), ":", "true", ",",
                                  Q("error"), ":", Q("boom"), "}" >> >>, <<>>),
      Completion("exit", 0, << << "{", Q("success"), ":", "false", ",",
                                  Q("error"), ":", Q("login failed"), "}" >> >>, <<>>),
      Completion("exit", 0, << << "{", "}" >> >>, <<>>),
      Completion("exit", 0, << << "[" >> \o SuccessLine \o << "]" >> >>, <<>>),
      Completion("exit", 0, << << "5" >> >>, <<>>),
      Completion("exit", 0, << LogLine, ProfileA >>, <<>>),
      Completion("exit", 0, << ErrorRow >>, <<>>),
      Completion("exit", 0, << << "[", "]" >> >>, <<>>),
      Completion("exit", 0, << << "[", "5", "]" >> >>, <<>>),
      Completion("exit", 0, << << "[" >> \o ProfileB \o << "]" >> >>, <<>>),
      Completion("exit", 0, << LogLine, << "[" >> \o ProfileA \o << "," >> \o ErrorRow
                                           \o << "]" >> >>, <<>>),
      Completion("exit", 0, << << "[", "{", "}", "," >> \o ProfileB \o << "," >>
                                  \o ErrorOnly \o << "]" >> >>, <<>>) }

\* how the export's write can go: it succeeds, the file cannot be opened, or
\* the write fails after the file was opened and truncated
IoOutcomes == { "ok", "open fails", "write fails" }

\* ------------------------------------------------------------------------
\* The state of one PuppeteerLinkedInScraper and of the call in progress
\* ------------------------------------------------------------------------
VARIABLES
    email,          \* config.LINKEDIN_EMAIL
    password,       \* config.LINKEDIN_PASSWORD
    cookies_exist,  \* self.cookies_path.exists()
    profiles_data,  \* self.profiles_data
    pc,             \* where scrape_profiles stands
    runs,           \* calls of scrape_profiles made so far
    arg_urls,       \* the profile_urls argument of the call in progress
    arg_max,        \* the max_profiles argument of the call in progress
    profile_urls,   \* the local profile_urls after truncation
    len_at_call,    \* len(self.profiles_data) when the last call began
    invocations,    \* the child processes the last call has started
    login_result,   \* ensure_login's local `result`: what _run_node_script('login-only') returned
    login_success,  \* what ensure_login returned
    scrape_result,  \* what _run_node_script('scrape', ...) returned
    scrape_kind,    \* how the child process of the scrape ended
    returned,       \* the object the last call returned: "nothing" or "self.profiles_data"
    tally,          \* the success / failed counts the last call logged
    csv_file,       \* the file at the output path
    export_result   \* what the last export_to_csv did: "none", "no-op", "path", "raised"

\* The state of one run of main(), and of a direct call of one method
VARIABLES
    headless,       \* self.headless
    main_pc,        \* where main stands
    args,           \* the parsed command line
    input_file,     \* the text of the file at args.input_file
    main_urls,      \* main's local profile_urls: what load_profile_urls returned
    exit_code,      \* what main returned
    norm_in,        \* _normalize_profile_data called directly: its argument,
    norm_once,      \*   its result,
    norm_twice,     \*   and the result of calling it on that result
    node_completion, \* _run_node_script called directly: how the child process ended,
    node_result     \*   and what the call returned

main_vars == << main_pc, args, input_file, main_urls, exit_code >>
normalize_vars == << norm_in, norm_once, norm_twice >>
node_vars == << node_completion, node_result >>

\* what a call of scrape_profiles or export_to_csv leaves alone
outer_vars == << headless, main_vars, normalize_vars, node_vars >>

\* the scraper object, its configuration and the call of scrape_profiles
scraper_vars ==
    << email, password, cookies_exist, profiles_data, pc, runs, arg_urls, arg_max,
       profile_urls, len_at_call, invocations, login_result, login_success,
       scrape_result, scrape_kind, returned, tally, csv_file, export_result >>

vars == << scraper_vars, outer_vars >>

config_vars == << email, password, cookies_exist >>
export_vars == << csv_file, export_result >>
local_vars == << arg_urls, arg_max, profile_urls >>

\* a started child process: the node arguments taken apart, and HEADLESS of
\* its environment (line 111)
Invocation(mode, multi_tab, max_tabs, targets) ==
    [mode |-> mode, multi_tab |-> multi_tab, max_tabs |-> max_tabs, targets |-> targets,
     HEADLESS |-> IF headless THEN "true" ELSE "false"]

NoTally == [successful |-> 0, failed |-> 0]

\* a CSV file: the header and one row (column -> value) per record;
\* exists is FALSE when there is no file at the path
CsvFile(header, rows) == [exists |-> TRUE, header |-> header, rows |-> rows]
NoFile == [exists |-> FALSE, header |-> <<>>, rows |-> <<>>]

\* argparse's result: no_headless, profiles (<<>> is None), test
Args(no_headless, profiles, test) ==
    [no_headless |-> no_headless, profiles |-> profiles, test |-> test]
NoArgs == Args(FALSE, <<>>, FALSE)

\* the file at args.input_file, which may not exist
InputFile(lines) == [exists |-> TRUE, lines |-> lines]
NoInputFile == [exists |-> FALSE, lines |-> <<>>]

\* no child process has ended yet
NoCompletion == Completion("none", 0, <<>>, <<>>)

\* no run of main: the scraper is used as a library
NoMain ==
    /\ main_pc = "none"
    /\ args = NoArgs
    /\ input_file = NoInputFile
    /\ main_urls = <<>>
    /\ exit_code = -1

\* no direct call of _normalize_profile_data or _run_node_script
NoDirectCall ==
    /\ norm_in = None
    /\ norm_once = None
    /\ norm_twice = None
    /\ node_completion = NoCompletion
    /\ node_result = None

\* PuppeteerLinkedInScraper() with the defaults of __init__
InitScraper ==
    /\ email \in Emails
    /\ password \in Passwords
    /\ cookies_exist \in BOOLEAN
    /\ profiles_data = <<>>
    /\ pc = "idle"
    /\ runs = 0
    /\ arg_urls = <<>>
    /\ arg_max = <<>>
    /\ profile_urls = <<>>
    /\ len_at_call = 0
    /\ invocations = <<>>
    /\ login_result = None
    /\ login_success = FALSE
    /\ scrape_result = None
    /\ scrape_kind = "none"
    /\ returned = "nothing"
    /\ tally = NoTally
    /\ csv_file = NoFile
    /\ export_result = "none"
    /\ headless = TRUE

Init ==
    /\ InitScraper
    /\ NoMain
    /\ NoDirectCall

\* profile_urls[:max_profiles]
SliceTo(seq, n) ==
    IF n >= 0
    THEN SubSeq(seq, 1, IF n < Len(seq) THEN n ELSE Len(seq))
    ELSE SubSeq(seq, 1, IF Len(seq) + n > 0 THEN Len(seq) + n ELSE 0)

\* lines 323-324: `if max_profiles:` is false for None and for 0
Truncate(urls, max_profiles) ==
    IF max_profiles # <<>> /\ max_profiles[1] # 0
    THEN SliceTo(urls, max_profiles[1])
    ELSE urls

\* lines 359-360
Tally(data) ==
    LET successful == Cardinality({ i \in 1..Len(data) : ~DictHas(data[i], "error") })
    IN [successful |-> successful, failed |-> Len(data) - successful]

\* `return self.profiles_data`: the caller gets the list object itself, not a
\* copy; the locals of the call are gone
ReturnProfilesData ==
    /\ pc' = "returned"
    /\ returned' = "self.profiles_data"
    /\ arg_urls' = <<>>
    /\ arg_max' = <<>>
    /\ profile_urls' = <<>>

\* the list the caller holds after the last call
ReturnedList == IF returned = "self.profiles_data" THEN profiles_data ELSE <<>>

\* the records the last call appended
Appended == SubSeq(profiles_data, len_at_call + 1, Len(profiles_data))

\* scrape_profiles is called: lines 323-327
ScrapeProfilesCall(urls, max_profiles) ==
    /\ pc \in {"idle", "returned"}
    /\ runs < MaxRuns
    /\ runs' = runs + 1
    /\ arg_urls' = urls
    /\ arg_max' = max_profiles
    /\ profile_urls' = Truncate(urls, max_profiles)
    /\ len_at_call' = Len(profiles_data)
    /\ invocations' = <<>>
    /\ login_result' = None
    /\ login_success' = FALSE
    /\ scrape_result' = None
    /\ scrape_kind' = "none"
    /\ tally' = NoTally
    /\ pc' = "ensure_login"
    /\ UNCHANGED outer_vars
    /\ UNCHANGED << config_vars, export_vars, profiles_data, returned >>

\* a variant of HasCredentials: one of the two credentials is enough
HasCredentialsEither == ~(email = "" /\ password = "")

\* lines 207-210
HasCredentials == ~(email = "" \/ password = "")

\* ensure_login without credentials, and the return of line 332
EnsureLoginNoCredentials ==
    /\ pc = "ensure_login"
    /\ ~HasCredentials
    /\ login_success' = FALSE
    /\ ReturnProfilesData
    /\ UNCHANGED outer_vars
    /\ UNCHANGED << config_vars, export_vars, profiles_data, runs, len_at_call,
                    invocations, login_result, scrape_result, scrape_kind, tally >>

\* ensure_login with credentials: the login-only child process is started
EnsureLoginInvoke ==
    /\ pc = "ensure_login"
    /\ HasCredentials
    /\ invocations' = Append(invocations, Invocation("login-only", FALSE, 0, <<>>))
    /\ pc' = "login_wait"
    /\ UNCHANGED outer_vars
    /\ UNCHANGED << config_vars, export_vars, local_vars, profiles_data, runs,
                    len_at_call, login_result, login_success, scrape_result,
                    scrape_kind, returned, tally >>

\* a variant of LoginVerdict: any object without an error counts as a login
LoginVerdictNoError(result) ==
    /\ Truthy(result)
    /\ IsDict(result)
    /\ ~DictHas(result, "error")

\* lines 217-227: what ensure_login makes of the result
LoginVerdict(result) ==
    /\ Truthy(result)
    /\ IsDict(result)
    /\ Truthy(DictGet(result, "success", None))

\* a variant of LoginComplete: a failed login is tried again
LoginCompleteRetry(completion) ==
    /\ pc = "login_wait"
    /\ login_result' = RunNodeScript(completion)
    /\ login_success' = LoginVerdict(login_result')
    /\ pc' = IF login_success' THEN "dispatch" ELSE "ensure_login"
    /\ UNCHANGED outer_vars
    /\ UNCHANGED << config_vars, export_vars, local_vars, returned, profiles_data, runs,
                    len_at_call, invocations, scrape_result, scrape_kind, tally >>

\* the login-only child process ends; scrape_profiles returns on a failed login
LoginComplete(completion) ==
    /\ pc = "login_wait"
    /\ login_result' = RunNodeScript(completion)
    /\ login_success' = LoginVerdict(login_result')
    /\ IF login_success'
       THEN /\ pc' = "dispatch"
            /\ UNCHANGED << local_vars, returned >>
       ELSE ReturnProfilesData
    /\ UNCHANGED outer_vars
    /\ UNCHANGED << config_vars, export_vars, profiles_data, runs, len_at_call,
                    invocations, scrape_result, scrape_kind, tally >>

\* a variant of Min: the default ceiling whatever the number of targets
MinFirst(a, b) == a

Min(a, b) == IF a < b THEN a ELSE b

\* lines 338-357 up to the call of _run_node_script: the scrape child process
\* is started; an empty list makes scrape_profiles_multi_tab return at once.
\* ensure_login has returned, its local `result` is gone.
Dispatch ==
    /\ pc = "dispatch"
    /\ login_result' = None
    /\ IF Len(profile_urls) = 1
       THEN /\ invocations' = Append(invocations,
                                     Invocation("scrape", FALSE, 0, << profile_urls[1] >>))
            /\ pc' = "scrape_wait"
            /\ UNCHANGED << local_vars, returned, tally >>
       ELSE IF profile_urls = <<>>
            THEN /\ ReturnProfilesData
                 /\ tally' = Tally(profiles_data)
                 /\ UNCHANGED invocations
            ELSE /\ invocations' = Append(invocations,
                                          Invocation("scrape", TRUE,
                                                     Min(3, Len(profile_urls)), profile_urls))
                 /\ pc' = "scrape_wait"
                 /\ UNCHANGED << local_vars, returned, tally >>
    /\ UNCHANGED outer_vars
    /\ UNCHANGED << config_vars, export_vars, profiles_data, runs, len_at_call,
                    login_success, scrape_result, scrape_kind >>

\* the outcome of a part of a call: the new self.profiles_data, and whether an
\* exception left the part
Outcome(data, exc) == [data |-> data, exc |-> exc]

\* scrape_single_profile after _run_node_script returned (lines 247-265);
\* _normalize_profile_data raises AttributeError on a value that is no dict
ScrapeSingleProfile(data, result, now) ==
    IF ~Truthy(result) THEN Outcome(data, FALSE)
    ELSE IF IsList(result)
         THEN IF IsDict(result.l[1])
              THEN Outcome(Append(data, NormalizeProfileData(result.l[1], now)), FALSE)
              ELSE Outcome(data, TRUE)
    ELSE IF IsDict(result)
         THEN IF DictHas(result, "error")
              THEN Outcome(data, FALSE)
              ELSE Outcome(Append(data, NormalizeProfileData(result, now)), FALSE)
    ELSE Outcome(data, FALSE)

\* the loop of lines 293-300 over the items of a result list
RECURSIVE AppendRecords(_, _, _, _)
AppendRecords(data, items, i, now) ==
    IF i > Len(items) THEN data
    ELSE IF IsDict(items[i]) /\ ~DictHas(items[i], "error")
         THEN AppendRecords(Append(data, NormalizeProfileData(items[i], now)), items, i + 1, now)
    ELSE IF IsDict(items[i])
         THEN AppendRecords(Append(data, NormalizeProfileData(items[i], now)), items, i + 1, now)
    ELSE AppendRecords(data, items, i + 1, now)

\* scrape_profiles_multi_tab after _run_node_script returned (lines 290-309)
ScrapeProfilesMultiTab(data, result, now) ==
    IF ~Truthy(result) THEN Outcome(data, FALSE)
    ELSE IF IsList(result) THEN Outcome(AppendRecords(data, result.l, 1, now), FALSE)
    ELSE IF IsDict(result)
         THEN IF DictHas(result, "error")
              THEN Outcome(data, FALSE)
              ELSE Outcome(Append(data, NormalizeProfileData(result, now)), FALSE)
    ELSE Outcome(data, FALSE)

\* lines 342-349: the try / except Exception around the single-target path
TryExcept(outcome) == Outcome(outcome.data, FALSE)

\* lines 339-357 after the child process ended
ScrapePhase(urls, data, result, now) ==
    IF Len(urls) = 1
    THEN TryExcept(ScrapeSingleProfile(data, result, now))
    ELSE ScrapeProfilesMultiTab(data, result, now)

\* how the child process ended, as _run_node_script tells the cases apart
CompletionKind(completion) ==
    IF completion.kind = "exit" /\ completion.returncode # 0 THEN "nonzero"
    ELSE completion.kind

\* the scrape child process ends: the records are appended, the tally is
\* logged and scrape_profiles returns (or an exception leaves it)
ScrapeComplete(completion, now) ==
    /\ pc = "scrape_wait"
    /\ scrape_kind' = CompletionKind(completion)
    /\ scrape_result' = RunNodeScript(completion)
    /\ LET outcome == ScrapePhase(profile_urls, profiles_data, scrape_result', now)
       IN /\ profiles_data' = outcome.data
          /\ IF outcome.exc
             THEN /\ pc' = "raised"
                  /\ UNCHANGED << local_vars, returned, tally >>
             ELSE /\ ReturnProfilesData
                  /\ tally' = Tally(outcome.data)
    /\ UNCHANGED outer_vars
    /\ UNCHANGED << config_vars, export_vars, runs, len_at_call, invocations,
                    login_result, login_success >>

\* ------------------------------------------------------------------------
\* export_to_csv
\* ------------------------------------------------------------------------
\* the columns of pd.DataFrame(records): the keys in the order they first appear
RECURSIVE AddColumns(_, _, _)
AddColumns(columns, keys, i) ==
    IF i > Len(keys) THEN columns
    ELSE IF keys[i] \in Range(columns)
         THEN AddColumns(columns, keys, i + 1)
         ELSE AddColumns(Append(columns, keys[i]), keys, i + 1)

RECURSIVE FrameColumns(_, _, _)
FrameColumns(columns, records, i) ==
    IF i > Len(records) THEN columns
    ELSE IF Keys(records[i]) \subseteq Range(columns)
         THEN FrameColumns(columns, records, i + 1)
         ELSE FrameColumns(AddColumns(columns, records[i].k, 1), records, i + 1)

\* [f for f in fields if f in keep]
RECURSIVE Filter(_, _, _)
Filter(fields, keep, i) ==
    IF i > Len(fields) THEN <<>>
    ELSE (IF fields[i] \in keep THEN << fields[i] >> ELSE <<>>) \o Filter(fields, keep, i + 1)

\* a variant of ExportFrame: without the reordering of lines 430-432
ExportFrameNoReorder(records) ==
    LET all_fields == DATA_FIELDS \o EXTENDED_DATA_FIELDS
        data_columns == FrameColumns(<<>>, records, 1)
        header == AddColumns(data_columns, all_fields, 1)
        Cell(record, column) ==
            IF column \in Range(data_columns)
            THEN DictGet(record, column, Str("NaN"))
            ELSE Str("N/A")
    IN CsvFile(header,
               [i \in 1..Len(records) |->
                   Dict(header, [j \in 1..Len(header) |-> Cell(records[i], header[j])])])

\* lines 421-435: the header and the rows that df.to_csv writes; a cell a
\* record has no key for is pandas' NaN, a column added by line 427 is "N/A"
ExportFrame(records) ==
    LET all_fields == DATA_FIELDS \o EXTENDED_DATA_FIELDS
        data_columns == FrameColumns(<<>>, records, 1)
        columns == AddColumns(data_columns, all_fields, 1)
        standard_fields == Filter(all_fields, Range(columns), 1)
        remaining_fields == Filter(columns, Range(columns) \ Range(standard_fields), 1)
        header == standard_fields \o remaining_fields
        Cell(record, column) ==
            IF column \in Range(data_columns)
            THEN DictGet(record, column, Str("NaN"))
            ELSE Str("N/A")
    IN CsvFile(header,
               [i \in 1..Len(records) |->
                   Dict(header, [j \in 1..Len(header) |-> Cell(records[i], header[j])])])

\* a variant of ExportToCsv: without the test of lines 414-416
ExportToCsvAlways(io) ==
    /\ pc \in {"idle", "returned"}
    /\ IF io = "ok"
       THEN /\ export_result' = "path"
            /\ csv_file' = ExportFrame(profiles_data)
       ELSE /\ export_result' = "raised"
            /\ csv_file' = IF io = "open fails" THEN csv_file ELSE CsvFile(<<>>, <<>>)
    /\ UNCHANGED outer_vars
    /\ UNCHANGED << config_vars, local_vars, profiles_data, pc, runs, len_at_call,
                    invocations, login_result, login_success, scrape_result,
                    scrape_kind, returned, tally >>

\* export_to_csv (lines 414-442), called between two calls of scrape_profiles
ExportToCsv(io) ==
    /\ pc \in {"idle", "returned"}
    /\ IF profiles_data = <<>>
       THEN /\ export_result' = "no-op"
            /\ UNCHANGED csv_file
       ELSE IF io = "ok"
            THEN /\ export_result' = "path"
                 /\ csv_file' = ExportFrame(profiles_data)
            ELSE /\ export_result' = "raised"
                 /\ csv_file' = IF io = "open fails" THEN csv_file ELSE CsvFile(<<>>, <<>>)
    /\ UNCHANGED outer_vars
    /\ UNCHANGED << config_vars, local_vars, profiles_data, pc, runs, len_at_call,
                    invocations, login_result, login_success, scrape_result,
                    scrape_kind, returned, tally >>

Next ==
    \/ \E urls \in TargetLists, max_profiles \in MaxProfilesArgs :
          ScrapeProfilesCall(urls, max_profiles)
    \/ EnsureLoginNoCredentials
    \/ EnsureLoginInvoke
    \/ \E completion \in Completions : LoginComplete(completion)
    \/ Dispatch
    \/ \E completion \in Completions, now \in Times : ScrapeComplete(completion, now)

\* calls of scrape_profiles on one scraper; export_to_csv is taken in
\* SpecExport and SpecMain
Spec == Init /\ [][Next]_vars

\* ------------------------------------------------------------------------
\* _normalize_profile_data called directly, and once more on its own result
\* ------------------------------------------------------------------------
\* a raw record with every schema field, in schema order
FullRecord(name, education, all_experience, all_education, scraped_at) ==
    LET all_fields == DATA_FIELDS \o EXTENDED_DATA_FIELDS
    IN Dict(all_fields,
            [i \in 1..Len(all_fields) |->
                CASE all_fields[i] = "name" -> name
                  [] all_fields[i] = "education" -> education
                  [] all_fields[i] = "all_experience" -> all_experience
                  [] all_fields[i] = "all_education" -> all_education
                  [] all_fields[i] = "scraped_at" -> scraped_at
                  [] all_fields[i] = "profile_url" -> Str("u1")
                  [] OTHER -> Str("N/A")])

FullRecords ==
    { FullRecord(name, education, all_experience, all_education, scraped_at) :
        name \in { Str("A"), None },
        education \in { Str("N/A"), List(<< Str("A") >>) },
        all_experience \in { List(<<>>), Str("[]"),
                             List(<< Dict(<< "title" >>, << Str("Engineer") >>) >>) },
        all_education \in { List(<<>>), Str("N/A"), List(<< Str("A"), Str("B") >>) },
        scraped_at \in { Str("2024-12-31 09:00:00"), Str("N/A") } }

\* the raw records of the direct calls: with every schema field, with one
\* more key on top, and with schema fields missing
RawRecords ==
    FullRecords
    \cup { DictSet(r, key, Str("boom")) : r \in FullRecords, key \in { "error", "extra" } }
    \cup { Dict(<<>>, <<>>),
           Dict(<< "name", "all_experience" >>, << Str("A"), List(<< Str("B") >>) >>) }

\* the times of a second call
LaterTimes == { "2025-01-01 10:05:00" }

InitNormalize ==
    /\ Init
    /\ email = ""
    /\ password = ""
    /\ ~cookies_exist

\* normalized = self._normalize_profile_data(profile_data)
NormalizeCall(profile_data, now) ==
    /\ norm_in = None
    /\ norm_in' = profile_data
    /\ norm_once' = NormalizeProfileData(profile_data, now)
    /\ UNCHANGED << norm_twice, scraper_vars, headless, main_vars, node_vars >>

\* self._normalize_profile_data(normalized)
NormalizeAgain(now) ==
    /\ norm_once # None
    /\ norm_twice = None
    /\ norm_twice' = NormalizeProfileData(norm_once, now)
    /\ UNCHANGED << norm_in, norm_once, scraper_vars, headless, main_vars, node_vars >>

NextNormalize ==
    \/ \E profile_data \in RawRecords, now \in Times : NormalizeCall(profile_data, now)
    \/ \E now \in LaterTimes : NormalizeAgain(now)

SpecNormalize == InitNormalize /\ [][NextNormalize]_vars

\* ------------------------------------------------------------------------
\* export_to_csv on a scraper that has finished its calls of scrape_profiles,
\* with or without a file at the output path from an earlier run
\* ------------------------------------------------------------------------
MaxRecords == 2

\* raw objects of a worker
ExportRawRecords ==
    { Dict(<<>>, <<>>),
      Dict(<< "profile_url", "name" >>, << Str(Target(1)), Str("A") >>),
      Dict(<< "name", "education", "extra" >>, << Str("B"), List(<< Str("A") >>), Num("5") >>),
      Dict(<< "error", "profile_url" >>, << Str("boom"), Str("u2") >>),
      Dict(<< "all_experience", "scraped_at" >>,
           << List(<< Dict(<< "title" >>, << Str("Engineer") >>) >>),
              Str("2024-12-31 09:00:00") >>) }

\* what self.profiles_data can hold: records that went through
\* _normalize_profile_data
ExportRecords == { NormalizeProfileData(r, now) : r \in ExportRawRecords, now \in Times }
ExportData == UNION { [1..n -> ExportRecords] : n \in 0..MaxRecords }

\* the file an earlier run left at the output path
OldFile == CsvFile(<< "name" >>, << Dict(<< "name" >>, << Str("old") >>) >>)

InitExport ==
    /\ email = ""
    /\ password = ""
    /\ cookies_exist = FALSE
    /\ profiles_data \in ExportData
    /\ pc = "idle"
    /\ runs = MaxRuns
    /\ arg_urls = <<>>
    /\ arg_max = <<>>
    /\ profile_urls = <<>>
    /\ len_at_call = 0
    /\ invocations = <<>>
    /\ login_result = None
    /\ login_success = FALSE
    /\ scrape_result = None
    /\ scrape_kind = "none"
    /\ returned = "nothing"
    /\ tally = NoTally
    /\ csv_file \in { NoFile, OldFile }
    /\ export_result = "none"
    /\ headless = TRUE
    /\ NoMain
    /\ NoDirectCall

NextExport == \E io \in IoOutcomes : ExportToCsv(io)

SpecExport == InitExport /\ [][NextExport]_vars

\* ------------------------------------------------------------------------
\* _run_node_script called directly
\* ------------------------------------------------------------------------
\* the tokens of a JSON value as the worker prints it
RECURSIVE Tokens(_)
RECURSIVE ItemTokens(_, _)
RECURSIVE MemberTokens(_, _, _)

ItemTokens(items, i) ==
    IF i > Len(items) THEN <<>>
    ELSE (IF i > 1 THEN << "," >> ELSE <<>>) \o Tokens(items[i]) \o ItemTokens(items, i + 1)

MemberTokens(keys, vals, i) ==
    IF i > Len(keys) THEN <<>>
    ELSE (IF i > 1 THEN << "," >> ELSE <<>>) \o << Quoted(keys[i]), ":" >>
         \o Tokens(vals[i]) \o MemberTokens(keys, vals, i + 1)

Tokens(v) ==
    CASE v.t = "none" -> << "null" >>
      [] v.t = "str" -> << Quoted(v.s) >>
      [] v.t = "num" -> << v.s >>
      [] v.t = "bool" -> << v.s >>
      [] v.t = "list" -> << "[" >> \o ItemTokens(v.l, 1) \o << "]" >>
      [] v.t = "dict" -> << "{" >> \o MemberTokens(v.k, v.l, 1) \o << "}" >>

\* an array printed on one line
OneLine(array) == << Tokens(array) >>

\* an array printed with one element per line
PerLine(array) ==
    << << "[" >> >>
    \o [i \in 1..Len(array.l) |->
           Tokens(array.l[i]) \o (IF i < Len(array.l) THEN << "," >> ELSE <<>>)]
    \o << << "]" >> >>

\* arrays of profile objects a scrape can print
BridgeArrays ==
    { List(<< Dict(<< "profile_url", "name" >>, << Str(Target(1)), Str("A") >>) >>),
      List(<< Dict(<< "profile_url", "name" >>, << Str(Target(1)), Str("A") >>),
              Dict(<< "error", "profile_url" >>, << Str("boom"), Str("u2") >>) >>),
      List(<< Dict(<<>>, <<>>),
              Dict(<< "name", "education" >>, << Str("B"), List(<< Str("A") >>) >>),
              Dict(<< "error" >>, << Str("boom") >>) >>),
      List(<<>>) }

\* diagnostic lines before the result: none, plain text, text with brackets
BracketLog == << "[", "INFO", "]", "starting" >>
BridgeLogs == { <<>>, << LogLine >>, << LogLine, BracketLog, <<>> >> }

\* what follows the diagnostic lines
BridgePayloads ==
    { OneLine(array) : array \in BridgeArrays }
    \cup { PerLine(array) : array \in BridgeArrays }
    \cup { <<>>,
           << <<>>, <<>> >>,
           << SuccessLine >>,
           << ErrorOnly >>,
           << << "5" >> >>,
           << << Q("A") >> >>,
           << << "true" >> >>,
           << << "null" >> >>,
           << << "done" >> >>,
           << << "[", "object", "Object", "]" >> >>,
           << << "{", "oops" >> >>,
           << << "scraped", "[", "5", "]", "profiles" >> >> }

BridgeCompletions ==
    { Completion("exit", returncode, logs \o payload, stderr) :
        returncode \in { 0, 1 }, logs \in BridgeLogs, payload \in BridgePayloads,
        stderr \in { <<>>, << ErrorOnly >> } }
    \cup { Completion("timeout", 0, <<>>, <<>>), Completion("oserror", 0, <<>>, <<>>) }

InitBridge ==
    /\ Init
    /\ email = "user@example.com"
    /\ password = "secret"
    /\ cookies_exist

\* result = self._run_node_script(...): the child process ends with `completion`
RunNodeScriptCall(completion) ==
    /\ node_completion = NoCompletion
    /\ node_completion' = completion
    /\ node_result' = RunNodeScript(completion)
    /\ UNCHANGED << scraper_vars, headless, main_vars, normalize_vars >>

NextBridge == \E completion \in BridgeCompletions : RunNodeScriptCall(completion)

SpecBridge == InitBridge /\ [][NextBridge]_vars

\* ------------------------------------------------------------------------
\* load_profile_urls.  A line of the file is the sequence of its characters
\* (without the line break); a file is [exists, lines].
\* ------------------------------------------------------------------------
Letters ==
    { "a", "b", "c", "d", "e", "f", "g", "h", "i", "j", "k", "l", "m", "n", "o",
      "p", "q", "r", "s", "t", "u", "v", "w", "x", "y", "z" }
Digits == { "0", "1", "2", "3", "4", "5", "6", "7", "8", "9" }
Whitespace == { " ", "\t" }

\* str.strip()
RECURSIVE StripLeft(_)
StripLeft(text) ==
    IF text # <<>> /\ Head(text) \in Whitespace THEN StripLeft(Tail(text)) ELSE text

RECURSIVE StripRight(_)
StripRight(text) ==
    IF text # <<>> /\ text[Len(text)] \in Whitespace
    THEN StripRight(SubSeq(text, 1, Len(text) - 1))
    ELSE text

StripText(text) == StripRight(StripLeft(text))

\* the first index from `from` on of a character of `chars`, 0 if there is none
FirstIndex(text, chars, from) ==
    LET found == { i \in from..Len(text) : text[i] \in chars }
    IN IF found = {} THEN 0 ELSE CHOOSE i \in found : \A j \in found : i <= j

\* `sub in text`
Contains(text, sub) ==
    \E i \in 1..(Len(text) - Len(sub) + 1) : SubSeq(text, i, i + Len(sub) - 1) = sub

\* urllib.parse.urlsplit: the text after the scheme, when there is one
AfterScheme(url) ==
    LET i == FirstIndex(url, { ":" }, 1)
    IN IF /\ i > 1
          /\ url[1] \in Letters
          /\ \A j \in 1..(i - 1) : url[j] \in Letters \cup Digits \cup { "+", "-", "." }
       THEN SubSeq(url, i + 1, Len(url))
       ELSE url

\* urlparse(url).netloc: what follows `//`, up to the next `/`, `?` or `#`
NetLoc(url) ==
    LET rest == AfterScheme(url)
        end == FirstIndex(rest, { "/", "?", "#" }, 3)
    IN IF Len(rest) >= 2 /\ rest[1] = "/" /\ rest[2] = "/"
       THEN SubSeq(rest, 3, IF end = 0 THEN Len(rest) ELSE end - 1)
       ELSE <<>>

LINKEDIN_COM ==
    << "l", "i", "n", "k", "e", "d", "i", "n", ".", "c", "o", "m" >>

\* a variant of KeepLine: every line that is no comment is kept
KeepLineAny(url) == url # <<>> /\ url[1] # "#"

\* lines 462-466: the stripped line is appended
KeepLine(url) ==
    /\ url # <<>>
    /\ url[1] # "#"
    /\ Contains(NetLoc(url), LINKEDIN_COM)

\* the loop of lines 460-468
RECURSIVE LoadLines(_, _)
LoadLines(lines, urls) ==
    IF lines = <<>> THEN urls
    ELSE LoadLines(Tail(lines),
                   IF KeepLine(StripText(Head(lines)))
                   THEN Append(urls, StripText(Head(lines)))
                   ELSE urls)

\* load_profile_urls(file_path); FileNotFoundError gives []
LoadProfileUrls(file) ==
    IF file.exists THEN LoadLines(file.lines, <<>>) ELSE <<>>

\* a profile URL
LineP1 ==
    << "h", "t", "t", "p", "s", ":", "/", "/", "w", "w", "w", ".", "l", "i",
       "n", "k", "e", "d", "i", "n", ".", "c", "o", "m", "/", "i", "n", "/",
       "p", "1" >>

\* the bare domain
LineP2 ==
    << "h", "t", "t", "p", "s", ":", "/", "/", "l", "i", "n", "k", "e", "d",
       "i", "n", ".", "c", "o", "m", "/", "i", "n", "/", "p", "2" >>

\* a subdomain, with blanks around the URL
LineP3 ==
    << " ", " ", "h", "t", "t", "p", ":", "/", "/", "u", "k", ".", "l", "i",
       "n", "k", "e", "d", "i", "n", ".", "c", "o", "m", "/", "i", "n", "/",
       "p", "3", " " >>

\* a blank line
LineBlank ==
    << " ", " " >>

\* a comment
LineComment ==
    << "#", " ", "h", "t", "t", "p", "s", ":", "/", "/", "w", "w", "w", ".",
       "l", "i", "n", "k", "e", "d", "i", "n", ".", "c", "o", "m", "/", "i",
       "n", "/", "p", "1" >>

\* another site
LineOther ==
    << "h", "t", "t", "p", "s", ":", "/", "/", "e", "x", "a", "m", "p", "l",
       "e", ".", "c", "o", "m", "/", "i", "n", "/", "x" >>

\* a host that begins with the domain
LineSuffixed ==
    << "h", "t", "t", "p", "s", ":", "/", "/", "l", "i", "n", "k", "e", "d",
       "i", "n", ".", "c", "o", "m", ".", "e", "x", "a", "m", "p", "l", "e",
       ".", "o", "r", "g", "/", "i", "n", "/", "x" >>

\* a host that ends with the text of the domain
LinePrefixed ==
    << "h", "t", "t", "p", "s", ":", "/", "/", "n", "o", "t", "l", "i", "n",
       "k", "e", "d", "i", "n", ".", "c", "o", "m", "/", "i", "n", "/", "x" >>

\* no scheme: urlparse finds no host
LineNoScheme ==
    << "w", "w", "w", ".", "l", "i", "n", "k", "e", "d", "i", "n", ".", "c",
       "o", "m", "/", "i", "n", "/", "p", "1" >>

\* the domain in the path only
LineInPath ==
    << "h", "t", "t", "p", "s", ":", "/", "/", "e", "x", "a", "m", "p", "l",
       "e", ".", "c", "o", "m", "/", "l", "i", "n", "k", "e", "d", "i", "n",
       ".", "c", "o", "m" >>

MaxLines == 3

LoaderLines ==
    { LineP1, LineP2, LineP3, LineBlank, <<>>, LineComment, LineOther, LineSuffixed,
      LinePrefixed, LineNoScheme, LineInPath }

LoaderFiles ==
    { NoInputFile }
    \cup { InputFile(lines) : lines \in UNION { [1..n -> LoaderLines] : n \in 0..MaxLines } }

InitLoader ==
    /\ InitScraper
    /\ email = ""
    /\ password = ""
    /\ ~cookies_exist
    /\ main_pc = "start"
    /\ args = NoArgs
    /\ input_file \in LoaderFiles
    /\ main_urls = <<>>
    /\ exit_code = -1
    /\ NoDirectCall

\* ------------------------------------------------------------------------
\* main
\* ------------------------------------------------------------------------
\* line 524: profile_urls = load_profile_urls(args.input_file)
MainLoad ==
    /\ main_pc = "start"
    /\ main_urls' = LoadProfileUrls(input_file)
    /\ main_pc' = "loaded"
    /\ UNCHANGED << scraper_vars, headless, args, input_file, exit_code,
                    normalize_vars, node_vars >>

\* lines 526-528: no valid URL, return 1
MainNoUrls ==
    /\ main_pc = "loaded"
    /\ main_urls = <<>>
    /\ exit_code' = 1
    /\ main_pc' = "exited"
    /\ UNCHANGED << scraper_vars, headless, args, input_file, main_urls,
                    normalize_vars, node_vars >>

\* lines 533-554: max_profiles and the local headless are worked out and the
\* scraper is built, always with headless=True; __init__ raises RuntimeError
\* when Node.js is not available, which line 592 turns into return 1
MainBuild(node_available) ==
    /\ main_pc = "loaded"
    /\ main_urls # <<>>
    /\ headless' = TRUE
    /\ IF node_available
       THEN /\ main_pc' = "try"
            /\ UNCHANGED exit_code
       ELSE /\ main_pc' = "exited"
            /\ exit_code' = 1
    /\ UNCHANGED << scraper_vars, args, input_file, main_urls, normalize_vars, node_vars >>

\* lines 533-535
MaxProfilesOf(parsed) == IF parsed.test THEN << 5 >> ELSE parsed.profiles

\* line 569: scraper.scrape_profiles(profile_urls, max_profiles=max_profiles)
MainScrape ==
    /\ main_pc = "try"
    /\ runs = 0
    /\ ScrapeProfilesCall(main_urls, MaxProfilesOf(args))

\* line 574: csv_file = scraper.export_to_csv(output_path)
MainExport(io) ==
    /\ main_pc = "try"
    /\ pc = "returned"
    /\ export_result = "none"
    /\ ExportToCsv(io)

\* a variant of MainReturn: 0 unless an exception came
MainReturnZero ==
    /\ main_pc = "try"
    /\ export_result # "none" \/ pc = "raised"
    /\ exit_code' = IF export_result \in { "path", "no-op" } THEN 0 ELSE 1
    /\ main_pc' = "exited"
    /\ UNCHANGED << scraper_vars, headless, args, input_file, main_urls,
                    normalize_vars, node_vars >>

\* lines 576-587 and 592-597: 0 when export_to_csv returned a path, 1 when it
\* returned None or when an exception left scrape_profiles or export_to_csv
MainReturn ==
    /\ main_pc = "try"
    /\ export_result # "none" \/ pc = "raised"
    /\ exit_code' = IF export_result = "path" THEN 0 ELSE 1
    /\ main_pc' = "exited"
    /\ UNCHANGED << scraper_vars, headless, args, input_file, main_urls,
                    normalize_vars, node_vars >>

\* lines 589-591: KeyboardInterrupt somewhere in the try block; a call of
\* scrape_profiles in progress is left
MainInterrupt ==
    /\ main_pc = "try"
    /\ exit_code' = 1
    /\ main_pc' = "interrupted"
    /\ pc' = IF pc \in { "idle", "returned", "raised" } THEN pc ELSE "interrupted"
    /\ UNCHANGED << config_vars, export_vars, local_vars, profiles_data, runs,
                    len_at_call, invocations, login_result, login_success,
                    scrape_result, scrape_kind, returned, tally >>
    /\ UNCHANGED << headless, args, input_file, main_urls, normalize_vars, node_vars >>

\* the command lines: --no-headless, -n, --test
MainArgs ==
    { Args(no_headless, profiles, FALSE) :
        no_headless \in BOOLEAN, profiles \in { <<>>, << 1 >> } }
    \cup { Args(no_headless, <<>>, TRUE) : no_headless \in BOOLEAN }

\* the input files of the runs of main
MainFiles ==
    { NoInputFile,
      InputFile(<< LineComment, <<>>, LineOther >>),
      InputFile(<< LineP1 >>),
      InputFile(<< LineP1, LineOther, LineP3 >>) }

InitMain ==
    /\ InitScraper
    /\ main_pc = "start"
    /\ args \in MainArgs
    /\ input_file \in MainFiles
    /\ main_urls = <<>>
    /\ exit_code = -1
    /\ NoDirectCall

NextLoader == MainLoad

SpecLoader == InitLoader /\ [][NextLoader]_vars

NextMain ==
    \/ MainLoad
    \/ MainNoUrls
    \/ \E node_available \in BOOLEAN : MainBuild(node_available)
    \/ MainScrape
    \/ EnsureLoginNoCredentials
    \/ EnsureLoginInvoke
    \/ \E completion \in Completions : LoginComplete(completion)
    \/ Dispatch
    \/ \E completion \in Completions, now \in Times : ScrapeComplete(completion, now)
    \/ \E io \in IoOutcomes : MainExport(io)
    \/ MainReturn
    \/ MainInterrupt

SpecMain == InitMain /\ [][NextMain]_vars

\* ------------------------------------------------------------------------
\* Properties
\* ------------------------------------------------------------------------
IsScrape(invocation) == invocation.mode = "scrape"
IsLoginOnly(invocation) == invocation.mode = "login-only"
ScrapeInvocations == SelectSeq(invocations, IsScrape)
LoginInvocations == SelectSeq(invocations, IsLoginOnly)

\* the number of targets the last call handed to the worker
TargetCount == IF ScrapeInvocations = <<>> THEN 0 ELSE Len(ScrapeInvocations[1].targets)

\* the scrape of the last call went through the single-target path
SinglePath == ScrapeInvocations # <<>> /\ ~ScrapeInvocations[1].multi_tab
MultiPath == ScrapeInvocations # <<>> /\ ScrapeInvocations[1].multi_tab

\* the worker answered the scrape with one JSON object per target
OneObjectPerTarget ==
    /\ scrape_kind = "exit"
    /\ \/ SinglePath /\ IsDict(scrape_result) /\ Truthy(scrape_result)
       \/ /\ IsList(scrape_result)
          /\ Len(scrape_result.l) = TargetCount
          /\ \A i \in 1..Len(scrape_result.l) : IsDict(scrape_result.l[i])

\* C1: after a call of scrape_profiles whose login succeeded, the number of
\* records equals the number of targets handed to the worker.  Stated here for
\* the runs the claim is most plainly about: the worker answered with one
\* object per target (success or error-marked), and only the records the run
\* itself appended are counted.
C1_OneRecordPerTarget ==
    (pc = "returned" /\ login_success /\ OneObjectPerTarget)
        => Len(Appended) = TargetCount

\* the first n elements of a list, n >= 0
FirstN(seq, n) == [i \in 1..(IF n < Len(seq) THEN n ELSE Len(seq)) |-> seq[i]]

\* C2: when max_profiles is an integer (0 included) below len(profile_urls),
\* exactly the first max_profiles targets, in order, are handed to the worker;
\* otherwise all of them are.  (Negative integers are left out.)
C2_TruncationToMax ==
    (pc = "scrape_wait" /\ (arg_max = <<>> \/ arg_max[1] >= 0))
        => ScrapeInvocations[1].targets =
              IF arg_max # <<>> /\ arg_max[1] < Len(arg_urls)
              THEN FirstN(arg_urls, arg_max[1])
              ELSE arg_urls

\* C3: a scrape invocation is issued only after ensure_login returned true in
\* the same call; when ensure_login returned false, no scrape invocation is
\* issued, no record is appended, and the list the call returns is empty.
C3_SessionGate ==
    /\ ScrapeInvocations # <<>> => login_success
    /\ (pc = "returned" /\ ~login_success)
          => /\ ScrapeInvocations = <<>>
             /\ Len(profiles_data) = len_at_call
             /\ ReturnedList = <<>>

SuccessFlagged(result) ==
    /\ result.t = "dict"
    /\ \E i \in 1..Len(result.k) :
          result.k[i] = "success" /\ result.l[i] \notin { None, Bool("false"), Num("0"), Str("") }

\* ensure_login has just returned after a login-only invocation
LoginJustDone ==
    \/ pc = "dispatch"
    \/ pc = "returned" /\ ~login_success /\ invocations # <<>>

\* C5: with credentials, ensure_login issues exactly one login-only invocation
\* and returns true iff the bridge returned an object whose success flag is set
\* (None, an error-flagged object, an object with neither flag and a value
\* that is no object all give false).
C5_LoginVerdict ==
    /\ (pc \notin {"idle", "ensure_login"} /\ email # "" /\ password # "")
          => Len(LoginInvocations) = 1 /\ IsLoginOnly(invocations[1])
    /\ LoginJustDone => (login_success <=> SuccessFlagged(login_result))

C5_Witness ==
    /\ pc = "returned"
    /\ invocations = << Invocation("login-only", FALSE, 0, <<>>) >>
    /\ login_result.t = "list"
    /\ Len(login_result.l) = 1
    /\ SuccessFlagged(login_result.l[1])
    /\ ~login_success

\* C6: after a successful login, one target gives one scrape invocation with
\* that target and no multi-tab flag; n > 1 targets give one scrape invocation
\* with all n targets in order, the multi-tab flag and max-tabs = min(3, n),
\* which lies in 1..3 and never exceeds n; never more than one scrape
\* invocation per call.
C6_ScrapeDispatch ==
    /\ Len(ScrapeInvocations) <= 1
    /\ pc = "scrape_wait"
          => LET n == Len(profile_urls)
                 inv == invocations[Len(invocations)]
             IN /\ Len(ScrapeInvocations) = 1
                /\ IsScrape(inv)
                /\ n >= 1
                /\ inv.targets = profile_urls
                /\ n = 1 => ~inv.multi_tab
                /\ n > 1 => /\ inv.multi_tab
                            /\ inv.max_tabs \in 1..3
                            /\ inv.max_tabs <= n
                            /\ inv.max_tabs = 3 \/ inv.max_tabs = n

C6_Witness ==
    /\ pc = "scrape_wait"
    /\ Len(profile_urls) = 4
    /\ invocations[2] = Invocation("scrape", TRUE, 3, profile_urls)

\* the scrape invocation of the last call failed as a whole: a timeout, a
\* non-zero exit, no child process at all, or output with no JSON value in it
WholeInvocationFailure ==
    \/ scrape_kind \in {"timeout", "nonzero", "oserror"}
    \/ scrape_kind = "exit" /\ scrape_result = None

\* C7: a whole-invocation failure of the scrape call appends no record and no
\* exception leaves scrape_profiles, for one target and for several: the call
\* returns the accumulated list (pc = "returned", where the caller's next
\* step, export_to_csv, can be taken) and never ends in pc = "raised".
C7_WholeFailureNoRecord ==
    WholeInvocationFailure
        => /\ pc = "returned"
           /\ returned = "self.profiles_data"
           /\ Len(profiles_data) = len_at_call

C7_Witness ==
    /\ pc = "returned"
    /\ scrape_kind = "timeout"
    /\ MultiPath
    /\ TargetCount = 3
    /\ Appended = <<>>

\* the number of JSON objects among the items of a list
ObjectCount(items) == Cardinality({ i \in 1..Len(items) : IsDict(items[i]) })

\* C8: an object with an `error` field that came with exit code 0 is
\* normalized and appended like any other record: as the whole result of a
\* single-target scrape it gives one record, and in a multi-target result
\* array every object, error-marked or not, gives one record.
C8_RowFailureKept ==
    (pc = "returned" /\ scrape_kind = "exit")
        => /\ (SinglePath /\ IsDict(scrape_result) /\ DictHas(scrape_result, "error"))
                 => Len(Appended) = 1
           /\ (MultiPath /\ IsList(scrape_result))
                 => Len(Appended) = ObjectCount(scrape_result.l)

\* C9: the list a call returns holds only the records that call's worker
\* invocation produced; a call whose login or scrape fails returns an empty
\* list, whatever earlier calls on the same instance collected.
C9_ResultSetPerRun ==
    pc = "returned" => ReturnedList = Appended

\* C10: every record _normalize_profile_data returned has every schema field
\* (DATA_FIELDS + EXTENDED_DATA_FIELDS) as a key, whatever the raw object was.
C10_AllSchemaFieldsPresent ==
    \A i \in 1..Len(profiles_data) :
        /\ IsDict(profiles_data[i])
        /\ \A j \in 1..Len(DATA_FIELDS) : DATA_FIELDS[j] \in Keys(profiles_data[i])
        /\ \A j \in 1..Len(EXTENDED_DATA_FIELDS) :
              EXTENDED_DATA_FIELDS[j] \in Keys(profiles_data[i])

\* the worker sent the empty object and an object with only `error`, and both
\* were normalized
C10_Witness ==
    /\ pc = "returned"
    /\ IsList(scrape_result)
    /\ Dict(<<>>, <<>>) \in Range(scrape_result.l)
    /\ Dict(<< "error" >>, << Str("boom") >>) \in Range(scrape_result.l)
    /\ Len(Appended) = Len(scrape_result.l)

\* C11: no field of a normalized record holds a native list: a schema field
\* whose raw value is a list (all_experience and all_education, and any other,
\* such as education, top_skills or all_skills) holds a text instead.
C11_ListFieldsSerialized ==
    \A i \in 1..Len(profiles_data) :
        \A j \in 1..Len(profiles_data[i].l) : ~IsList(profiles_data[i].l[j])

\* the raw record has every schema field
HasAllFields(r) ==
    IsDict(r) /\ Range(DATA_FIELDS \o EXTENDED_DATA_FIELDS) \subseteq Keys(r)

\* Python's == of two dicts: the same keys with the same values, in any order
SameDict(a, b) ==
    /\ IsDict(a) /\ IsDict(b)
    /\ Keys(a) = Keys(b)
    /\ \A key \in Keys(a) : DictGet(a, key, None) = DictGet(b, key, None)

\* C12: for a raw record r that has every schema field (with list or scalar
\* values), _normalize_profile_data(_normalize_profile_data(r)) equals
\* _normalize_profile_data(r).
C12_NormalizeIdempotent ==
    (norm_twice # None /\ HasAllFields(norm_in)) => SameDict(norm_twice, norm_once)

\* normalized twice: a record whose all_experience was a list of objects and
\* whose education is a list
C12_Witness ==
    /\ norm_twice # None
    /\ HasAllFields(norm_in)
    /\ DictGet(norm_in, "all_experience", None)
          = List(<< Dict(<< "title" >>, << Str("Engineer") >>) >>)
    /\ IsList(DictGet(norm_in, "education", None))
    /\ DictGet(norm_once, "all_experience", None) = Str("[{\"title\": \"Engineer\"}]")

\* the scenario: one target, the login succeeded, and the scrape worker
\* answered with an object holding only profile_url (the target) and name "A"
ScenarioNameOnly ==
    /\ pc = "returned"
    /\ login_success
    /\ SinglePath
    /\ ScrapeInvocations[1].targets = << Target(1) >>
    /\ scrape_kind = "exit"
    /\ scrape_result = Dict(<< "profile_url", "name" >>, << Str(Target(1)), Str("A") >>)

\* the schema fields but the ones in `except`
OtherFields(except) == Range(DATA_FIELDS \o EXTENDED_DATA_FIELDS) \ except

\* C13 (as claimed): in the scenario the call appended exactly one record, its
\* name is "A", its profile_url is the target, and every other schema field
\* is the sentinel "N/A".
C13_ScenarioAllSentinel ==
    ScenarioNameOnly
        => /\ Len(Appended) = 1
           /\ DictGet(Appended[1], "name", None) = Str("A")
           /\ DictGet(Appended[1], "profile_url", None) = Str(Target(1))
           /\ \A f \in OtherFields({ "name", "profile_url" }) :
                 DictGet(Appended[1], f, None) = Str("N/A")

\* C13 (amended): in the scenario the call appended exactly one record, its
\* name is "A", its profile_url is the target, all_experience and
\* all_education are the text of the empty list, "[]", and every other schema
\* field is the sentinel "N/A".
C13_ScenarioSentinelOrEmptyList ==
    ScenarioNameOnly
        => /\ Len(Appended) = 1
           /\ DictGet(Appended[1], "name", None) = Str("A")
           /\ DictGet(Appended[1], "profile_url", None) = Str(Target(1))
           /\ DictGet(Appended[1], "all_experience", None) = Str("[]")
           /\ DictGet(Appended[1], "all_education", None) = Str("[]")
           /\ \A f \in OtherFields({ "name", "profile_url", "all_experience",
                                      "all_education" }) :
                 DictGet(Appended[1], f, None) = Str("N/A")

\* the scenario on a fresh scraper
C13_Witness ==
    /\ ScenarioNameOnly
    /\ runs = 1
    /\ Len(profiles_data) = 1

\* C14: with an empty ResultSet export_to_csv returns no path and leaves the
\* output path as it is (no file is written, a file already there is not
\* touched); the file is written only with at least one record, and then it
\* is overwritten: it holds one row per record and nothing of the old file.
C14_ExportNoOpWhenEmpty ==
    [][ /\ profiles_data = <<>>
            => /\ csv_file' = csv_file
               /\ export_result' \in { export_result, "no-op" }
        /\ (export_result' = "path" /\ (csv_file' # csv_file \/ export_result # "path"))
            => /\ profiles_data # <<>>
               /\ csv_file'.exists
               /\ Len(csv_file'.rows) = Len(profiles_data) ]_vars

\* an export with no record left the old file alone
C14_Witness ==
    /\ profiles_data = <<>>
    /\ export_result = "no-op"
    /\ csv_file = OldFile

\* C15: the header export_to_csv wrote for a non-empty ResultSet begins with
\* the schema columns in schema order (DATA_FIELDS, then
\* EXTENDED_DATA_FIELDS), whatever the records populated; the columns after
\* them are the other columns of the data, each once; and every row has a
\* cell for every column.
C15_HeaderSchemaFirst ==
    export_result = "path"
        => LET all_fields == DATA_FIELDS \o EXTENDED_DATA_FIELDS
               header == csv_file.header
               n == Len(all_fields)
           IN /\ profiles_data # <<>>
              /\ Len(header) >= n
              /\ SubSeq(header, 1, n) = all_fields
              /\ \A j \in (n + 1)..Len(header) :
                    /\ header[j] \notin Range(all_fields)
                    /\ \E i \in 1..Len(profiles_data) : header[j] \in Keys(profiles_data[i])
                    /\ \A k \in (n + 1)..Len(header) : header[k] = header[j] => k = j
              /\ \A i \in 1..Len(profiles_data) :
                    Keys(profiles_data[i]) \subseteq Range(header)
              /\ Len(csv_file.rows) = Len(profiles_data)
              /\ \A i \in 1..Len(csv_file.rows) : csv_file.rows[i].k = header

\* a file written from two records whose own first key is profile_url, one of
\* them normalized from the empty object
C15_Witness ==
    /\ export_result = "path"
    /\ Len(profiles_data) = 2
    /\ profiles_data[1].k[1] = "profile_url"
    /\ profiles_data[2] = NormalizeProfileData(Dict(<<>>, <<>>), "2025-01-01 10:00:00")
    /\ csv_file.header[1] = "name"
    /\ csv_file.rows[2].l[1] = Str("N/A")

\* the child process exited with code 0 and printed `logs` and then `payload`
PrintedOnExitZero(logs, payload) ==
    /\ node_completion.kind = "exit"
    /\ node_completion.returncode = 0
    /\ node_completion.stdout = logs \o payload

\* C16: on exit code 0, for stdout made of diagnostic lines followed by a JSON
\* array, printed on one line or with one element object per line,
\* _run_node_script returns that whole array.
C16_TrailingArrayExtracted ==
    \A logs \in BridgeLogs, array \in BridgeArrays :
        (PrintedOnExitZero(logs, OneLine(array)) \/ PrintedOnExitZero(logs, PerLine(array)))
            => node_result = array

\* the text holds no JSON object or array, neither as a whole nor as a part
PureNonJson(text) ==
    LET ts == Flatten(text)
    IN /\ ts # <<>>
       /\ ~JsonLoads(ts).ok
       /\ \A p \in 1..Len(ts) : \A q \in p..Len(ts) :
             ts[p] \in { "[", "{" } => ~JsonLoads(SubSeq(ts, p, q)).ok

\* C17: _run_node_script returns None on a non-zero exit code (whatever
\* stderr and stdout hold, a parsable error payload or valid profile JSON
\* included), on a timeout, when the child process cannot be started, on
\* empty output, and on output that holds no JSON (text with brackets or
\* braces included).
C17_FailureIsNone ==
    /\ node_completion.kind \in { "timeout", "oserror" } => node_result = None
    /\ (node_completion.kind = "exit" /\ node_completion.returncode # 0)
          => node_result = None
    /\ (node_completion.kind = "exit" /\ Strip(node_completion.stdout) = <<>>)
          => node_result = None
    /\ (node_completion.kind = "exit" /\ PureNonJson(node_completion.stdout))
          => node_result = None

\* a non-zero exit with a profile array on stdout and an error payload on stderr
C17_Witness ==
    /\ node_completion.kind = "exit"
    /\ node_completion.returncode = 1
    /\ node_completion.stderr = << ErrorOnly >>
    /\ \E array \in BridgeArrays :
          array # List(<<>>) /\ node_completion.stdout = OneLine(array)
    /\ node_result = None

\* exit code 0 and text with brackets that is no JSON
C17_WitnessBrackets ==
    /\ PrintedOnExitZero(<< LogLine, BracketLog, <<>> >>,
                         << << "[", "object", "Object", "]" >> >>)
    /\ PureNonJson(node_completion.stdout)
    /\ node_result = None

\* `text` ends with `suffix`
EndsWith(text, suffix) ==
    /\ Len(text) >= Len(suffix)
    /\ SubSeq(text, Len(text) - Len(suffix) + 1, Len(text)) = suffix

\* the host of a URL: its netloc without user information and port
HostOf(url) ==
    LET netloc == NetLoc(url)
        ats == { i \in 1..Len(netloc) : netloc[i] = "@" }
        start == IF ats = {} THEN 1 ELSE 1 + CHOOSE i \in ats : \A j \in ats : j <= i
        colon == FirstIndex(netloc, { ":" }, start)
    IN SubSeq(netloc, start, IF colon = 0 THEN Len(netloc) ELSE colon - 1)

\* the host is linkedin.com or a subdomain of it
HostInDomain(url) ==
    \/ HostOf(url) = LINKEDIN_COM
    \/ EndsWith(HostOf(url), << "." >> \o LINKEDIN_COM)

\* a line the loader is to return
WantedLine(url) == url # <<>> /\ url[1] # "#" /\ HostInDomain(url)

\* C18: load_profile_urls returns, in file order, exactly the (stripped) lines
\* that are non-blank, do not begin with `#` and are a URL whose host is
\* linkedin.com or a subdomain of it; a host that merely contains the text
\* `linkedin.com` is dropped.
C18_LoaderKeepsDomainHosts ==
    main_pc = "loaded"
        => main_urls = SelectSeq([i \in 1..Len(input_file.lines) |->
                                     StripText(input_file.lines[i])], WantedLine)

\* at least one profile record was written to the output file
Exported == csv_file.exists /\ Len(csv_file.rows) >= 1

C20_NoHeadlessTakesEffect ==
    main_pc # "none"
        => \A i \in 1..Len(invocations) :
              IsScrape(invocations[i])
                  => invocations[i].HEADLESS = IF args.no_headless THEN "false" ELSE "true"

\* a child process is running and the call waits for its end
ChildRunning == pc \in { "login_wait", "scrape_wait" }

\* the invocations of one call of scrape_profiles: at most one login-only,
\* then at most one scrape
AtMostLoginThenScrape ==
    /\ Len(invocations) <= 2
    /\ Len(LoginInvocations) <= 1
    /\ Len(ScrapeInvocations) <= 1
    /\ invocations # <<>> => IsLoginOnly(invocations[1])
    /\ Len(invocations) = 2 => IsScrape(invocations[2])
    /\ pc = "login_wait" => Len(invocations) = 1
    /\ pc = "scrape_wait" => Len(invocations) = 2

\* a step starts at most one child process, and only when none is running;
\* the end of a child process starts no other one
OneChildAtATime ==
    /\ invocations' # invocations
          => \/ invocations' = <<>> /\ pc \in { "idle", "returned" }
             \/ /\ Len(invocations') = Len(invocations) + 1
                /\ SubSeq(invocations', 1, Len(invocations)) = invocations
                /\ ~ChildRunning
                /\ ChildRunning'
    /\ ChildRunning => invocations' = invocations
    /\ (ChildRunning' /\ pc' # pc) => Len(invocations') = Len(invocations) + 1

\* C21: a call of scrape_profiles starts at most two child processes, at most
\* one login-only and then at most one scrape; each call of _run_node_script
\* starts exactly one, the next only after the one before has ended or timed
\* out, and none is started again whatever its outcome.
C21_ProcessDiscipline == [] AtMostLoginThenScrape /\ [][OneChildAtATime]_vars

\* the login and the scrape were each started once, and the scrape timed out
C21_Witness ==
    /\ pc = "returned"
    /\ Len(invocations) = 2
    /\ scrape_kind = "timeout"
    /\ Appended = <<>>

\* C22: whatever the child process wrote, the call of _run_node_script returns
\* None, a JSON object or a JSON array, and never a value of another kind
\* (a number, a string or a boolean).
C22_ResultIsObjectArrayOrNone ==
    node_completion # NoCompletion
        => \/ node_result = None
           \/ IsDict(node_result)
           \/ IsList(node_result)

\* the schema field set
SchemaFields == Range(DATA_FIELDS \o EXTENDED_DATA_FIELDS)

\* the keys of a record are the schema fields, each once, and no other
ExactlySchemaKeys(record) ==
    /\ IsDict(record)
    /\ Keys(record) = SchemaFields
    /\ Len(record.k) = Cardinality(SchemaFields)

\* an item of the worker's result that the worker marked as failed
FailedRows(result) ==
    IF IsList(result)
    THEN { i \in 1..Len(result.l) : IsDict(result.l[i]) /\ DictHas(result.l[i], "error") }
    ELSE {}

\* C23: every record in profiles_data has exactly the schema fields as keys,
\* so none has an `error` key, and the tally at the end of scrape_profiles
\* reports failed = 0 and success = the number of records, whatever rows the
\* worker marked as failed.
C23_NoErrorKeyTallyAllSuccess ==
    /\ \A i \in 1..Len(profiles_data) :
          /\ ExactlySchemaKeys(profiles_data[i])
          /\ ~DictHas(profiles_data[i], "error")
    /\ tally.failed = 0
    /\ tally # NoTally => tally.successful = Len(profiles_data)

\* the worker marked a row as failed, the row was stored, and the tally
\* counts it as a success
C23_Witness ==
    /\ pc = "returned"
    /\ FailedRows(scrape_result) # {}
    /\ Len(Appended) = Len(scrape_result.l)
    /\ Len(Appended) >= 2
    /\ tally = [successful |-> Len(profiles_data), failed |-> 0]

====
